---- MODULE Spec2Model ----
(***************************************************************************)
(* Bracket engine of the song tournament application: song registry,      *)
(* seeding, bracket build (rounds, matchups, byes, forward links), vote    *)
(* tally and round advancement.  The state is the committed content of    *)
(* the database tables songs / rounds / matchups / votes and the          *)
(* tournament row; one action is one request handler, taken at the        *)
(* granularity of its db.session.commit() calls.                          *)
(*                                                                         *)
(* Time is counted in hours: timedelta(hours=h) is h units and            *)
(* int(time.time()) is the variable now.  A NULL column is 0 (Python      *)
(* treats None and 0 alike in the truth tests the handlers use), a NULL   *)
(* popularity is NoPop.                                                    *)
(***************************************************************************)
EXTENDS Integers, Sequences, FiniteSets, TLC

----------------------------------------------------------------------------
(* Bounds of the model *)

\* most songs a tournament holds in the registration / build specification
MaxSongs == 6
\* most songs a tournament holds in the voting specification
MaxEntrants == 4
\* the clock stops ticking here
MaxTime == 3
\* most songs in the seeding specification
MaxSeedLen == 3
\* most song deletions in one run of the registration specification
MaxDeletes == 1
\* most rows the matchups table holds
MaxMatchupRows == 8
\* most songs a tournament holds in the specification of concurrent votes
MaxContested == 2
\* users whose votes a matchup holds in the specification of get_winner
MaxTallyUsers == 3

\* registration_deadline of the tournament under study, and the clock at its creation
RegistrationDeadline == 1
\* the largest timestamp datetime arithmetic can represent (datetime.max), in model hours
MaxTimestamp == 12
\* songs of the tournaments whose rounds are ended by concurrent requests
MaxRaced == 5
\* the clock of the specification of deadlines stops here
MaxLate == 4
\* most songs a tournament holds in the specification of deadlines
MaxTimed == 3
\* most round extensions in one run
MaxExtends == 1

NULL == 0
NoPop == -1

\* popularity of the submitted songs: every other one comes without metadata,
\* the later of the others are the more popular
SubmittedPop(id) == IF id % 2 = 1 THEN NoPop ELSE id
SeedPopValues == {NoPop, 0, 1}
SeedTimes == {1, 2}
\* deadline_hours posted with the build form; the last one overflows datetime
DeadlineChoices == {1, MaxTimestamp}
Users == {1}
Procs == {1, 2}

VARIABLES
    now,        \* int(time.time())
    songs,      \* songs table of the tournament: set of [id, popularity, created_at]
    rounds,     \* rounds table: sequence indexed by round_number
    matchups,   \* matchups table: sequence indexed by matchup id
    votes,      \* votes table: set of [user_id, matchup_id, song_id, is_vote_changed]
    tstatus,    \* tournament.status
    resp,       \* what the last handler answered
    deleted,    \* number of songs deleted so far
    pc,         \* position of each concurrent build request
    seedIn,     \* seeding specification: the songs as the query enumerates them
    seedOut,    \* seeding specification: the seed lists computed from them
    req,        \* position of each concurrent vote request
    accepted,   \* history: <<user, matchup, song>> of the last vote accepted from each user on each matchup
    adv,        \* the round each concurrent end-of-round request has found active
    extended    \* number of round extensions so far

vars == <<now, songs, rounds, matchups, votes, tstatus, resp, deleted, pc, seedIn, seedOut, req, accepted, adv, extended>>

----------------------------------------------------------------------------
(* Tournament status: the string 'registration', 'voting_round_<n>' or 'completed' *)

Registration == <<"registration", 0>>
\* a status that stays at the first voting round
StuckAtRoundOne(n) == <<"voting_round", 1>>
VotingRound(n) == <<"voting_round", n>>
Completed == <<"completed", 0>>

Response(op, outcome, detail) == [op |-> op, outcome |-> outcome, detail |-> detail]

----------------------------------------------------------------------------
(* Pure functions *)

\* math.ceil(math.log2(n)) for n >= 1
CeilLog2(n) == CHOOSE k \in 0..n : 2^k >= n /\ \A j \in 0..(k - 1) : 2^j < n

\* Tournament.get_num_rounds_needed
get_num_rounds_needed(song_count) == IF song_count < 2 THEN 0 ELSE CeilLog2(song_count)

\* tournament.songs.all(): the table scan returns the rows by ascending id
RECURSIVE SongsById(_)
SongsById(S) ==
    IF S = {} THEN <<>>
    ELSE LET m == CHOOSE s \in S : \A t \in S : s.id <= t.id
         IN <<m>> \o SongsById(S \ {m})

SongsAll == SongsById(songs)

\* the sort key of seed_songs
SeedKey(s) ==
    << IF s.popularity # NoPop THEN 1 ELSE 0,
       IF s.popularity # NoPop THEN s.popularity ELSE 0,
       -s.created_at >>

\* tuple comparison a < b
KeyLess(a, b) ==
    \/ a[1] < b[1]
    \/ a[1] = b[1] /\ a[2] < b[2]
    \/ a[1] = b[1] /\ a[2] = b[2] /\ a[3] < b[3]

\* sorted(..., reverse=True) is stable: x goes behind every element whose key is
\* greater than or equal to its own
RECURSIVE InsertDesc(_, _)
InsertDesc(sorted, x) ==
    IF sorted = <<>> THEN <<x>>
    ELSE IF KeyLess(SeedKey(Head(sorted)), SeedKey(x)) THEN <<x>> \o sorted
    ELSE <<Head(sorted)>> \o InsertDesc(Tail(sorted), x)

RECURSIVE SortedDesc(_, _)
SortedDesc(acc, list) ==
    IF list = <<>> THEN acc
    ELSE SortedDesc(InsertDesc(acc, Head(list)), Tail(list))

\* TournamentService.seed_songs
seed_songs(list) == SortedDesc(<<>>, list)

\* bracket_size and num_byes of generate_matchups
BracketSize(song_count) == 2^CeilLog2(song_count)
NumByes(song_count) == BracketSize(song_count) - song_count

\* songs_in_round_1 = seeded_songs[num_byes:]
SongsInRound1(seeded) == SubSeq(seeded, NumByes(Len(seeded)) + 1, Len(seeded))

NumRound1Matchups(seeded) == Len(SongsInRound1(seeded)) \div 2

\* a pairing of neighbours in the seed list, in place of high seed against low seed
Round1PairAdjacent(seeded, i) ==
    LET s1 == SongsInRound1(seeded)
    IN <<s1[2 * i + 1].id, s1[2 * i + 2].id>>

\* the i-th (from 0) pair of round 1: songs_in_round_1[i], songs_in_round_1[-(i + 1)]
Round1Pair(seeded, i) ==
    LET s1 == SongsInRound1(seeded)
    IN <<s1[i + 1].id, s1[Len(s1) - i].id>>

\* the i-th (from 0) pair of bye songs: bye_songs[i], bye_songs[-(i + 1)]
ByePair(seeded, i) ==
    LET nb == NumByes(Len(seeded))
    IN <<seeded[i + 1].id, seeded[nb - i].id>>

\* number of bye pairs placed in round 2: len(bye_songs) // 2
NumByePairs(seeded) == NumByes(Len(seeded)) \div 2

\* num_matchups_this_round, for round r >= 1
RECURSIVE RoundCount(_, _)
RoundCount(seeded, r) ==
    IF r = 1 THEN NumRound1Matchups(seeded)
    ELSE IF r = 2 THEN (RoundCount(seeded, 1) + NumByes(Len(seeded))) \div 2
    ELSE RoundCount(seeded, r - 1) \div 2

\* matchups created before those of round r
RECURSIVE RoundBase(_, _)
RoundBase(seeded, r) ==
    IF r = 1 THEN 0 ELSE RoundBase(seeded, r - 1) + RoundCount(seeded, r - 1)

\* a link that leaves out the matchups taken by the byes
NoByeOffset(seeded, r, i) == i \div 2

\* next_matchup_idx of the i-th (from 0) matchup of round r
NextMatchupIdx(seeded, r, i) ==
    IF r = 1 THEN NumByePairs(seeded) + i \div 2 ELSE i \div 2

\* this_round_matchups[next_matchup_idx] raises IndexError
LinkIndexError(seeded, numRounds) ==
    \E r \in 1..(numRounds - 1) :
        \E i \in 0..(RoundCount(seeded, r) - 1) :
            NextMatchupIdx(seeded, r, i) >= RoundCount(seeded, r + 1)

\* the Matchup rows generate_matchups adds, in the order of their ids; base is
\* the number of rows the table holds already
NewMatchups(base, seeded, numRounds) ==
    LET total == RoundBase(seeded, numRounds + 1)
        RoundOf(j) == CHOOSE r \in 1..numRounds :
                          /\ RoundBase(seeded, r) < j
                          /\ j <= RoundBase(seeded, r) + RoundCount(seeded, r)
        Slots(r, i) ==
            IF r = 1 THEN Round1Pair(seeded, i)
            ELSE IF r = 2 /\ i < NumByePairs(seeded) THEN ByePair(seeded, i)
            ELSE <<NULL, NULL>>
    IN [j \in 1..total |->
          LET r == RoundOf(j)
              i == j - RoundBase(seeded, r) - 1
          IN [ round_id |-> r,
               position_in_round |-> NULL,
               song1_id |-> Slots(r, i)[1],
               song2_id |-> Slots(r, i)[2],
               winner_song_id |-> NULL,
               next_matchup_id |->
                   IF r < numRounds
                   THEN base + RoundBase(seeded, r + 1) + NextMatchupIdx(seeded, r, i) + 1
                   ELSE NULL,
               status |-> "pending" ]]

\* TournamentService.generate_rounds
generate_rounds(song_count) ==
    [r \in 1..get_num_rounds_needed(song_count) |->
        [status |-> "pending", start_date |-> NULL, end_date |-> NULL]]

\* the deadlines build_bracket gives the rounds, deadline_hours apart
RoundEnd(k, deadline_hours) == now + k * deadline_hours

\* datetime + timedelta raises OverflowError
DeadlineOverflow(numRounds, deadline_hours) ==
    \E k \in 1..numRounds : RoundEnd(k, deadline_hours) > MaxTimestamp

WithDeadlines(rs, deadline_hours) ==
    [k \in 1..Len(rs) |->
        [status |-> IF k = 1 THEN "active" ELSE "pending",
         start_date |-> RoundEnd(k - 1, deadline_hours),
         end_date |-> RoundEnd(k, deadline_hours)]]

----------------------------------------------------------------------------
(* Song registry *)

\* Tournament.is_registration_open
is_registration_open ==
    /\ tstatus = Registration
    /\ ~(RegistrationDeadline # NULL /\ now > RegistrationDeadline)

NextSongId == IF songs = {} THEN 1 ELSE 1 + CHOOSE i \in {s.id : s \in songs} : \A s \in songs : s.id <= i

\* submit_song (POST); every song comes from a user below the submission limit
SubmitSong(cap) ==
    /\ is_registration_open
    /\ NextSongId <= cap
    /\ songs' = songs \cup {[id |-> NextSongId, popularity |-> SubmittedPop(NextSongId), created_at |-> now]}
    /\ resp' = Response("submit_song", "ok", <<NextSongId>>)
    /\ UNCHANGED <<now, rounds, matchups, votes, tstatus, deleted, pc, seedIn, seedOut, req, accepted, adv, extended>>

\* delete_song, by the song's owner
DeleteSong(s) ==
    /\ s \in songs
    /\ is_registration_open
    /\ deleted < MaxDeletes
    /\ songs' = songs \ {s}
    /\ deleted' = deleted + 1
    /\ resp' = Response("delete_song", "ok", <<s.id>>)
    /\ UNCHANGED <<now, rounds, matchups, votes, tstatus, pc, seedIn, seedOut, req, accepted, adv, extended>>

----------------------------------------------------------------------------
(* Bracket builder *)

\* build_bracket (GET): the preview commits the rounds it generates
PreviewBracket ==
    /\ tstatus = Registration
    /\ Cardinality(songs) >= 2
    /\ rounds' = IF Len(rounds) = 0 THEN generate_rounds(Cardinality(songs)) ELSE rounds
    /\ resp' = Response("preview", "ok", <<Cardinality(songs)>>)
    /\ UNCHANGED <<now, songs, matchups, votes, tstatus, deleted, pc, seedIn, seedOut, req, accepted, adv, extended>>

\* build_bracket (POST) behind its validations: generate_matchups and its
\* commit, then the deadlines, the status and the second commit
BuildBody(deadline_hours, op) ==
    LET seeded == seed_songs(SongsAll)
        rs == IF rounds = <<>> THEN generate_rounds(Len(seeded)) ELSE rounds
        new == NewMatchups(Len(matchups), seeded, Len(rs))
    IN IF LinkIndexError(seeded, Len(rs))
       THEN \* rolled back before generate_matchups commits
            /\ resp' = Response(op, "error", <<>>)
            /\ UNCHANGED <<rounds, matchups, tstatus>>
       ELSE IF DeadlineOverflow(Len(rs), deadline_hours)
       THEN \* rolled back after generate_matchups has committed
            /\ matchups' = matchups \o new
            /\ rounds' = rs
            /\ resp' = Response(op, "error", <<>>)
            /\ UNCHANGED tstatus
       ELSE /\ matchups' = matchups \o new
            /\ rounds' = WithDeadlines(rs, deadline_hours)
            /\ tstatus' = VotingRound(1)
            /\ resp' = Response(op, "built",
                                <<Len(matchups), NumRound1Matchups(seeded), Len(new),
                                  NumByes(Len(seeded))>>)

BuildBracket(deadline_hours) ==
    /\ \/ /\ tstatus # Registration
          /\ resp' = Response("build_bracket", "BracketAlreadyBuilt", <<>>)
          /\ UNCHANGED <<rounds, matchups, tstatus>>
       \/ /\ tstatus = Registration
          /\ Cardinality(songs) < 2
          /\ resp' = Response("build_bracket", "InsufficientEntrants", <<>>)
          /\ UNCHANGED <<rounds, matchups, tstatus>>
       \/ /\ tstatus = Registration
          /\ Cardinality(songs) >= 2
          /\ Len(matchups) + Cardinality(songs) <= MaxMatchupRows
          /\ BuildBody(deadline_hours, "build_bracket")
    /\ UNCHANGED <<now, songs, votes, deleted, pc, seedIn, seedOut, req, accepted, adv, extended>>

----------------------------------------------------------------------------
(* Vote tally *)

\* a tally that finds no votes
NoVotesCounted(vs, m, song_id) == 0

\* Matchup.get_vote_count
get_vote_count(vs, m, song_id) ==
    Cardinality({v \in vs : v.matchup_id = m /\ v.song_id = song_id})

\* Matchup.get_winner, for row mu with id m under the votes vs; NULL for None
get_winner(vs, mu, m) ==
    IF mu.winner_song_id # NULL THEN mu.winner_song_id
    ELSE IF mu.song1_id = NULL \/ mu.song2_id = NULL THEN NULL
    ELSE IF get_vote_count(vs, m, mu.song1_id) > get_vote_count(vs, m, mu.song2_id)
         THEN mu.song1_id
    ELSE IF get_vote_count(vs, m, mu.song2_id) > get_vote_count(vs, m, mu.song1_id)
         THEN mu.song2_id
    ELSE NULL

\* a vote handler that does not look at the slots of the matchup
AnySongAccepted(mu, song_id) == TRUE

\* song_id in [matchup.song1_id, matchup.song2_id]
SongInMatchup(mu, song_id) == song_id \in {mu.song1_id, mu.song2_id}

\* a vote handler that does not look at the deadline of the round
DeadlineIgnored(r, t) == FALSE

\* round_obj.end_date and now > round_obj.end_date
DeadlinePassed(r, t) == r.end_date # NULL /\ t > r.end_date

\* a vote handler that takes every resubmission for a switch
NeverSameChoice(existing, song_id) == FALSE

\* not (existing_vote.song_id != song_id)
SameChoice(existing, song_id) == \A v \in existing : v.song_id = song_id

\* a vote request that holds nothing
Idle == [st |-> "idle", user_id |-> NULL, matchup_id |-> NULL, song_id |-> NULL]

\* the history of accepted votes once song_id is accepted from u on m
Accept(acc, u, m, song_id) ==
    {a \in acc : ~(a[1] = u /\ a[2] = m)} \cup {<<u, m, song_id>>}

\* vote (POST /vote) by user u for song song_id in matchup m
CastVote(u, m, song_id) ==
    LET mu == matchups[m]
        round_obj == rounds[mu.round_id]
        existing == {v \in votes : v.user_id = u /\ v.matchup_id = m}
    IN /\ IF ~SongInMatchup(mu, song_id)
          THEN /\ resp' = Response("vote", "InvalidSongForMatchup", <<>>)
               /\ UNCHANGED votes
          ELSE IF round_obj.status # "active"
          THEN /\ resp' = Response("vote", "MatchupNotOpen", <<m>>)
               /\ UNCHANGED votes
          ELSE IF DeadlinePassed(round_obj, now)
          THEN /\ resp' = Response("vote", "MatchupNotOpen", <<m>>)
               /\ UNCHANGED votes
          ELSE IF existing # {}
          THEN IF ~SameChoice(existing, song_id)
               THEN /\ votes' = (votes \ existing) \cup
                                   {[v EXCEPT !.song_id = song_id, !.is_vote_changed = TRUE]
                                       : v \in existing}
                    /\ resp' = Response("vote", "updated", <<m>>)
               ELSE /\ resp' = Response("vote", "unchanged", <<m>>)
                    /\ UNCHANGED votes
          ELSE /\ votes' = votes \cup {[user_id |-> u, matchup_id |-> m, song_id |-> song_id,
                                        is_vote_changed |-> FALSE]}
               /\ resp' = Response("vote", "recorded", <<m>>)
       /\ accepted' = IF resp'.outcome \in {"recorded", "updated", "unchanged"}
                       THEN Accept(accepted, u, m, song_id) ELSE accepted
       /\ UNCHANGED <<now, songs, rounds, matchups, tstatus, deleted, pc, seedIn, seedOut, req, adv, extended>>

----------------------------------------------------------------------------
(* Round advancer *)

\* a loop that moves each winner: the slot it leaves is emptied
RECURSIVE MoveWinners(_, _, _)
MoveWinners(ms, ids, n) ==
    IF ids = <<>> THEN <<ms, n>>
    ELSE LET m == Head(ids)
             winner == get_winner(votes, ms[m], m)
             nxt == ms[m].next_matchup_id
             won == [ms EXCEPT ![m].winner_song_id = winner, ![m].status = "completed",
                               ![m].song1_id = IF @ = winner THEN NULL ELSE @,
                               ![m].song2_id = IF @ = winner THEN NULL ELSE @]
         IN IF winner = NULL THEN MoveWinners(ms, Tail(ids), n)
            ELSE IF nxt = NULL THEN MoveWinners(won, Tail(ids), n)
            ELSE IF won[nxt].song1_id = NULL
                 THEN MoveWinners([won EXCEPT ![nxt].song1_id = winner], Tail(ids), n + 1)
            ELSE IF won[nxt].song2_id = NULL
                 THEN MoveWinners([won EXCEPT ![nxt].song2_id = winner], Tail(ids), n + 1)
            ELSE MoveWinners(won, Tail(ids), n)

\* the loop of advance_round over the matchups ids (a sequence, in query
\* order) of the round: ms is the matchups table so far, n the winners advanced
RECURSIVE AdvanceMatchups(_, _, _)
AdvanceMatchups(ms, ids, n) ==
    IF ids = <<>> THEN <<ms, n>>
    ELSE LET m == Head(ids)
             winner == get_winner(votes, ms[m], m)
             nxt == ms[m].next_matchup_id
             won == [ms EXCEPT ![m].winner_song_id = winner, ![m].status = "completed"]
         IN IF winner = NULL THEN AdvanceMatchups(ms, Tail(ids), n)
            ELSE IF nxt = NULL THEN AdvanceMatchups(won, Tail(ids), n)
            ELSE IF won[nxt].song1_id = NULL
                 THEN AdvanceMatchups([won EXCEPT ![nxt].song1_id = winner], Tail(ids), n + 1)
            ELSE IF won[nxt].song2_id = NULL
                 THEN AdvanceMatchups([won EXCEPT ![nxt].song2_id = winner], Tail(ids), n + 1)
            ELSE AdvanceMatchups(won, Tail(ids), n)

\* an advancement that finds no matchup in the round
NoMatchupsOfRound(r) == <<>>

\* Matchup.query.filter_by(round_id=...).all(): the ids, ascending
RECURSIVE IdsInOrder(_)
IdsInOrder(S) ==
    IF S = {} THEN <<>>
    ELSE LET m == CHOOSE x \in S : \A y \in S : x <= y
         IN <<m>> \o IdsInOrder(S \ {m})

MatchupsOfRound(r) == IdsInOrder({m \in 1..Len(matchups) : matchups[m].round_id = r})

\* an advancement that commits the end of the round and then stops
CloseRoundOnly(r) ==
    /\ rounds' = [rounds EXCEPT ![r].status = "completed", ![r].end_date = now]
    /\ resp' = Response("advance_round", "error", <<r>>)
    /\ UNCHANGED <<matchups, tstatus>>

\* TournamentService.advance_round on round r, and its commit
advance_round(r) ==
    LET ids == MatchupsOfRound(r)
        done == AdvanceMatchups(matchups, ids, 0)
        closed == [rounds EXCEPT ![r].status = "completed", ![r].end_date = now]
    IN /\ matchups' = done[1]
       /\ IF r + 1 <= Len(rounds)
          THEN /\ rounds' = [closed EXCEPT ![r + 1].status = "active",
                                           ![r + 1].start_date = now]
               /\ tstatus' = VotingRound(r + 1)
               /\ resp' = Response("advance_round", "advanced", <<r, done[2], NULL>>)
          ELSE /\ rounds' = closed
               /\ tstatus' = Completed
               /\ resp' = Response("advance_round", "completed",
                                   <<r, 0, IF ids = <<>> THEN NULL
                                           ELSE get_winner(votes, done[1][Head(ids)], Head(ids))>>)

\* a handler that ends any round, whatever its status
AnyRoundAccepted(round_obj) == TRUE

\* not (round_obj.status != 'active')
RoundIsActive(round_obj) == round_obj.status = "active"

\* end_round_early, by the tournament creator
AdvanceRound(r) ==
    /\ r \in 1..Len(rounds)
    /\ IF ~RoundIsActive(rounds[r])
       THEN /\ resp' = Response("advance_round", "RoundNotActive", <<r>>)
            /\ UNCHANGED <<rounds, matchups, tstatus>>
       ELSE advance_round(r)
    /\ UNCHANGED <<now, songs, votes, deleted, pc, seedIn, seedOut, req, accepted, adv, extended>>

\* end_round_early when advance_round raises before its commit: the handler
\* rolls the session back
AdvanceRoundFails(r) ==
    /\ r \in 1..Len(rounds)
    /\ RoundIsActive(rounds[r])
    /\ resp' = Response("advance_round", "error", <<r>>)
    /\ UNCHANGED <<now, songs, rounds, matchups, votes, tstatus, deleted, pc, seedIn, seedOut,
                   req, accepted, adv, extended>>

\* the clock, up to the time limit
ClockTick(limit) ==
    /\ now < limit
    /\ now' = now + 1
    /\ resp' = Response("tick", "ok", <<>>)
    /\ UNCHANGED <<songs, rounds, matchups, votes, tstatus, deleted, pc, seedIn, seedOut, req, accepted, adv, extended>>

Tick == ClockTick(MaxTime)

----------------------------------------------------------------------------
(* Specification of registration and bracket build *)

Init ==
    /\ now = RegistrationDeadline
    /\ songs = {}
    /\ rounds = <<>>
    /\ matchups = <<>>
    /\ votes = {}
    /\ tstatus = Registration
    /\ resp = Response("create", "ok", <<>>)
    /\ deleted = 0
    /\ pc = [p \in Procs |-> "idle"]
    /\ seedIn = <<>>
    /\ seedOut = <<>>
    /\ req = [p \in Procs |-> Idle]
    /\ accepted = {}
    /\ adv = [p \in Procs |-> NULL]
    /\ extended = 0

NextReg ==
    \/ SubmitSong(MaxSongs)
    \/ \E s \in songs : DeleteSong(s)
    \/ PreviewBracket
    \/ \E h \in DeadlineChoices : BuildBracket(h)

SpecReg == Init /\ [][NextReg]_vars

----------------------------------------------------------------------------
(* Specification of the tournament: registration, build, voting, advancement *)

\* deadline_hours the voting specification builds with
VotingDeadlines == {1}

Next ==
    \/ SubmitSong(MaxEntrants)
    \/ PreviewBracket
    \/ \E h \in VotingDeadlines : BuildBracket(h)
    \/ \E u \in Users, m \in 1..Len(matchups), s \in songs : CastVote(u, m, s.id)
    \/ \E r \in 1..Len(rounds) : AdvanceRound(r)
    \/ \E r \in 1..Len(rounds) : AdvanceRoundFails(r)
    \/ Tick

Spec == Init /\ [][Next]_vars

----------------------------------------------------------------------------
(* Concurrent bracket builds: each request validates the tournament it has
   loaded, then seeds, generates and commits *)

\* build_bracket (POST) up to its validations of status and song count
BuildValidate(p) ==
    /\ pc[p] = "idle"
    /\ Cardinality(songs) >= 2
    /\ pc' = [pc EXCEPT ![p] = IF tstatus # Registration THEN "BracketAlreadyBuilt"
                                ELSE "validated"]
    /\ resp' = Response("build_validate", pc'[p], <<p>>)
    /\ UNCHANGED <<now, songs, rounds, matchups, votes, tstatus, deleted, seedIn, seedOut, req, accepted, adv, extended>>

\* the rest of build_bracket (POST), on the rows committed by then
BuildConfirm(p, deadline_hours) ==
    /\ pc[p] = "validated"
    /\ Len(matchups) + Cardinality(songs) <= MaxMatchupRows
    /\ BuildBody(deadline_hours, "build_bracket")
    /\ pc' = [pc EXCEPT ![p] = resp'.outcome]
    /\ UNCHANGED <<now, songs, votes, deleted, seedIn, seedOut, req, accepted, adv, extended>>

NextConc ==
    \/ SubmitSong(MaxSongs)
    \/ \E p \in Procs : BuildValidate(p)
    \/ \E p \in Procs, h \in DeadlineChoices : BuildConfirm(p, h)

SpecConc == Init /\ [][NextConc]_vars

----------------------------------------------------------------------------
(* Concurrent requests on one round: a vote request reads the matchup, the
   round and the user's vote, then writes and commits; other requests run in
   between.  The requests are taken within one tick of the clock; deadlines
   are the subject of the specification of the tournament. *)

Voters == {1, 2}

\* a vote handler over a table without the unique constraint
NoUniqueConstraint(vs, u, m) == FALSE

\* uq_user_matchup_vote: a second row for (user_id, matchup_id) is refused
UniqueViolation(vs, u, m) == \E v \in vs : v.user_id = u /\ v.matchup_id = m

\* vote (POST /vote) up to the query for the user's existing vote; the
\* answers that write nothing are given here
VoteCheck(p, u, m, song_id) ==
    LET mu == matchups[m]
        round_obj == rounds[mu.round_id]
        existing == {v \in votes : v.user_id = u /\ v.matchup_id = m}
        pending(st) == [st |-> st, user_id |-> u, matchup_id |-> m, song_id |-> song_id]
    IN /\ req[p] = Idle
       /\ IF ~SongInMatchup(mu, song_id)
          THEN /\ resp' = Response("vote", "InvalidSongForMatchup", <<>>)
               /\ UNCHANGED <<req, accepted>>
          ELSE IF round_obj.status # "active" \/ DeadlinePassed(round_obj, now)
          THEN /\ resp' = Response("vote", "MatchupNotOpen", <<m>>)
               /\ UNCHANGED <<req, accepted>>
          ELSE IF existing # {} /\ SameChoice(existing, song_id)
          THEN /\ resp' = Response("vote", "unchanged", <<m>>)
               /\ accepted' = Accept(accepted, u, m, song_id)
               /\ UNCHANGED req
          ELSE /\ req' = [req EXCEPT ![p] = pending(IF existing # {} THEN "update" ELSE "insert")]
               /\ resp' = Response("vote_check", "ok", <<m>>)
               /\ UNCHANGED accepted
       /\ UNCHANGED <<now, songs, rounds, matchups, votes, tstatus, deleted, pc, seedIn, seedOut, adv, extended>>

\* the write of vote and its db.session.commit()
VoteCommit(p) ==
    LET u == req[p].user_id
        m == req[p].matchup_id
        song_id == req[p].song_id
        existing == {v \in votes : v.user_id = u /\ v.matchup_id = m}
    IN /\ req[p].st \in {"update", "insert"}
       /\ req' = [req EXCEPT ![p] = Idle]
       /\ IF req[p].st = "update"
          THEN /\ votes' = (votes \ existing) \cup
                              {[v EXCEPT !.song_id = song_id, !.is_vote_changed = TRUE]
                                  : v \in existing}
               /\ resp' = Response("vote", "updated", <<m>>)
               /\ accepted' = Accept(accepted, u, m, song_id)
          ELSE IF UniqueViolation(votes, u, m)
          THEN \* IntegrityError: the request ends in an error, nothing is stored
               /\ resp' = Response("vote", "error", <<m>>)
               /\ UNCHANGED <<votes, accepted>>
          ELSE /\ votes' = votes \cup {[user_id |-> u, matchup_id |-> m, song_id |-> song_id,
                                        is_vote_changed |-> FALSE]}
               /\ resp' = Response("vote", "recorded", <<m>>)
               /\ accepted' = Accept(accepted, u, m, song_id)
       /\ UNCHANGED <<now, songs, rounds, matchups, tstatus, deleted, pc, seedIn, seedOut, adv, extended>>

NextVote ==
    \/ SubmitSong(MaxContested)
    \/ \E h \in VotingDeadlines : BuildBracket(h)
    \/ \E p \in Procs, u \in Voters, m \in 1..Len(matchups), s \in songs : VoteCheck(p, u, m, s.id)
    \/ \E p \in Procs : VoteCommit(p)
    \/ \E r \in 1..Len(rounds) : AdvanceRound(r)

SpecVote == Init /\ [][NextVote]_vars

----------------------------------------------------------------------------
(* Concurrent requests to end a round: each request loads the round and
   tests its status, then runs advance_round.  From its first flush to its
   commit advance_round holds the row of the round, so two runs on one round
   follow one another; the test of the status is made before that, on the
   row as it was loaded.  Votes are requests of two steps as above. *)

\* end_round_early up to its test of the status of the round it has loaded
EndRoundCheck(p, r) ==
    /\ adv[p] = NULL
    /\ r \in 1..Len(rounds)
    /\ IF ~RoundIsActive(rounds[r])
       THEN /\ resp' = Response("advance_round", "RoundNotActive", <<r>>)
            /\ UNCHANGED adv
       ELSE /\ adv' = [adv EXCEPT ![p] = r]
            /\ resp' = Response("advance_check", "ok", <<r>>)
    /\ UNCHANGED <<now, songs, rounds, matchups, votes, tstatus, deleted, pc, seedIn, seedOut,
                   req, accepted, extended>>

\* the rest of end_round_early: advance_round on the rows committed by then
EndRoundRun(p) ==
    /\ adv[p] # NULL
    /\ advance_round(adv[p])
    /\ adv' = [adv EXCEPT ![p] = NULL]
    /\ UNCHANGED <<now, songs, votes, deleted, pc, seedIn, seedOut, req, accepted, extended>>

\* the requests that vote while the rounds are ended
VoteProcs == {1}

NextAdv ==
    \/ SubmitSong(MaxRaced)
    \/ \E h \in VotingDeadlines : BuildBracket(h)
    \/ \E p \in VoteProcs, u \in Users, m \in 1..Len(matchups), s \in songs : VoteCheck(p, u, m, s.id)
    \/ \E p \in VoteProcs : VoteCommit(p)
    \/ \E p \in Procs, r \in 1..Len(rounds) : EndRoundCheck(p, r)
    \/ \E p \in Procs : EndRoundRun(p)

SpecAdv == Init /\ [][NextAdv]_vars

----------------------------------------------------------------------------
(* Deadlines: rounds are extended and are ended early or late.  Time is
   counted in hours.  datetime.fromtimestamp(t) + timedelta(hours=h) is
   arithmetic on the wall clock of the server's timezone, and .timestamp()
   maps the result back: across a change of the clock the time elapsed
   differs from h by the change of the UTC offset.  The deadlines of the build
   are set away from such a change. *)

\* utcoffset before minus utcoffset after, in hours, for a timezone with
\* daylight saving time; 0 when the clock does not change within the hours
\* added
ZoneShifts == {-1, 0, 1}

\* extension_hours posted with the extension form: long enough to reach
\* across a change of the clock in either direction
ExtensionChoices == {2}

\* int((datetime.fromtimestamp(t) + timedelta(hours=hours)).timestamp())
WallClockAdd(t, hours, shift) == t + hours + shift

\* int(datetime.fromtimestamp(t).timestamp()) + hours * 3600
EpochAdd(t, hours) == t + hours

\* extend_round, by the tournament creator
ExtendRound(r, extension_hours, shift) ==
    /\ r \in 1..Len(rounds)
    /\ extended < MaxExtends
    /\ IF rounds[r].status \notin {"active", "pending"}
       THEN /\ resp' = Response("extend_round", "RoundNotExtendable", <<r>>)
            /\ UNCHANGED <<rounds, extended>>
       ELSE LET from == IF rounds[r].end_date # NULL THEN rounds[r].end_date ELSE now
                new_end_date == WallClockAdd(from, extension_hours, shift)
            IN IF new_end_date > MaxTimestamp
               THEN /\ resp' = Response("extend_round", "error", <<r>>)
                    /\ UNCHANGED <<rounds, extended>>
               ELSE /\ rounds' =
                          [k \in 1..Len(rounds) |->
                              IF k = r THEN [rounds[k] EXCEPT !.end_date = new_end_date]
                              ELSE IF k > r
                              THEN [rounds[k] EXCEPT
                                      !.start_date = IF @ # NULL THEN EpochAdd(@, extension_hours) ELSE @,
                                      !.end_date = IF @ # NULL THEN EpochAdd(@, extension_hours) ELSE @]
                              ELSE rounds[k]]
                    /\ extended' = extended + 1
                    /\ resp' = Response("extend_round", "extended", <<r, extension_hours>>)
    /\ UNCHANGED <<now, songs, matchups, votes, tstatus, deleted, pc, seedIn, seedOut, req,
                   accepted, adv>>

NextTime ==
    \/ SubmitSong(MaxTimed)
    \/ \E h \in VotingDeadlines : BuildBracket(h)
    \/ \E u \in Users, m \in 1..Len(matchups), s \in songs : CastVote(u, m, s.id)
    \/ \E r \in 1..Len(rounds) : AdvanceRound(r)
    \/ \E r \in 1..Len(rounds), h \in ExtensionChoices, shift \in ZoneShifts : ExtendRound(r, h, shift)
    \/ ClockTick(MaxLate)

SpecTime == Init /\ [][NextTime]_vars

\* the same requests within one tick of the clock, on the brackets of the
\* specification of the tournament
NextSlots ==
    \/ SubmitSong(MaxEntrants)
    \/ \E h \in VotingDeadlines : BuildBracket(h)
    \/ \E u \in Users, m \in 1..Len(matchups), s \in songs : CastVote(u, m, s.id)
    \/ \E r \in 1..Len(rounds) : AdvanceRound(r)
    \/ \E r \in 1..Len(rounds), h \in ExtensionChoices, shift \in ZoneShifts : ExtendRound(r, h, shift)

SpecSlots == Init /\ [][NextSlots]_vars

----------------------------------------------------------------------------
(* Matchup.get_winner as a function of the matchup row and its votes *)

\* a matchup row of songs 1 and 2: any slot may be empty, the stored winner
\* is empty or one of the two songs
WinnerRows ==
    {[round_id |-> 1, position_in_round |-> NULL, song1_id |-> s[1], song2_id |-> s[2],
      winner_song_id |-> w, next_matchup_id |-> NULL, status |-> "pending"]
        : s \in {<<1, 2>>, <<2, 1>>, <<1, NULL>>, <<NULL, 2>>, <<NULL, NULL>>},
          w \in {NULL, 1, 2}}

\* the votes tables of matchup 1: each of the users voted for a slot song or not at all
WinnerVotes(mu) ==
    {{[user_id |-> u, matchup_id |-> 1, song_id |-> f[u], is_vote_changed |-> FALSE]
        : u \in {x \in 1..MaxTallyUsers : f[x] # NULL}}
        : f \in [1..MaxTallyUsers -> {NULL, mu.song1_id, mu.song2_id}]}

InitWinner ==
    /\ now = RegistrationDeadline
    /\ songs = {[id |-> i, popularity |-> NoPop, created_at |-> RegistrationDeadline] : i \in 1..2}
    /\ rounds = generate_rounds(2)
    /\ \E mu \in WinnerRows :
          /\ matchups = <<mu>>
          /\ votes \in WinnerVotes(mu)
    /\ tstatus = Registration
    /\ resp = Response("create", "ok", <<>>)
    /\ deleted = 0
    /\ pc = [p \in Procs |-> "idle"]
    /\ seedIn = <<>>
    /\ seedOut = <<>>
    /\ req = [p \in Procs |-> Idle]
    /\ accepted = {}
    /\ adv = [p \in Procs |-> NULL]
    /\ extended = 0

\* matchup.get_winner() on matchup 1
GetWinner ==
    /\ resp.op # "get_winner"
    /\ resp' = Response("get_winner", "ok", <<get_winner(votes, matchups[1], 1)>>)
    /\ UNCHANGED <<now, songs, rounds, matchups, votes, tstatus, deleted, pc, seedIn, seedOut, req, accepted, adv, extended>>

NextWinner == GetWinner

SpecWinner == InitWinner /\ [][NextWinner]_vars

----------------------------------------------------------------------------
(* Seeding as a function of the songs the query returns *)

\* the lists of at most MaxSeedLen songs, ids 1, 2, ... in the order of submission
SeedInputs ==
    UNION {[1..n -> SeedPopValues \X SeedTimes] : n \in 0..MaxSeedLen}

IndexPermutations(n) == {f \in [1..n -> 1..n] : \A i, j \in 1..n : f[i] = f[j] => i = j}

InitSeed ==
    /\ now = RegistrationDeadline
    /\ songs = {}
    /\ rounds = <<>>
    /\ matchups = <<>>
    /\ votes = {}
    /\ tstatus = Registration
    /\ resp = Response("create", "ok", <<>>)
    /\ deleted = 0
    /\ pc = [p \in Procs |-> "idle"]
    /\ \E inp \in SeedInputs :
          seedIn = [i \in 1..Len(inp) |->
                       [id |-> i, popularity |-> inp[i][1], created_at |-> inp[i][2]]]
    /\ seedOut = <<>>
    /\ req = [p \in Procs |-> Idle]
    /\ accepted = {}
    /\ adv = [p \in Procs |-> NULL]
    /\ extended = 0

\* seed_songs on the songs as enumerated, and on the same songs enumerated
\* in another order
SeedSongs(perm) ==
    /\ seedOut = <<>>
    /\ seedOut' = << seed_songs(seedIn),
                     seed_songs([i \in 1..Len(seedIn) |-> seedIn[perm[i]]]) >>
    /\ UNCHANGED <<now, songs, rounds, matchups, votes, tstatus, resp, deleted, pc, seedIn, req, accepted, adv, extended>>

NextSeed == \E perm \in IndexPermutations(Len(seedIn)) : SeedSongs(perm)

SpecSeed == InitSeed /\ [][NextSeed]_vars

----------------------------------------------------------------------------
(* Properties of registration and bracket build *)

\* the seed list of the songs now in the tournament: seed k is SeedList[k]
SeedList == seed_songs(SongsAll)
SongCount == Cardinality(songs)

\* the last request was a bracket build that succeeded
Built == resp.op = "build_bracket" /\ resp.outcome = "built"
\* ids of the matchups that build created, and those of them in round r
BuiltIds == (resp.detail[1] + 1)..(resp.detail[1] + resp.detail[3])
BuiltInRound(r) == {m \in BuiltIds : matchups[m].round_id = r}
\* the rounds were generated for the song count the bracket was built with
FreshRounds == Len(rounds) = CeilLog2(SongCount)

\* number of slots of the matchups ms that hold song s
SlotsHolding(ms, s) ==
    Cardinality({m \in ms : matchups[m].song1_id = s})
    + Cardinality({m \in ms : matchups[m].song2_id = s})

\* C1: a confirmed bracket build leaves exactly ceil(log2 N) rounds, N the
\* song count at confirmation time, whatever submissions, deletions and
\* previews came before.
C1_RoundsForSongCount == Built => Len(rounds) = CeilLog2(SongCount)

\* C2: a build creates exactly (N - numByes)/2 round-1 matchups; the k-th
\* (from 0) holds seed numByes+k+1 in slot 1 and seed N-k in slot 2; every
\* non-bye seed is in exactly one round-1 slot and no bye seed is in any.
C2_Round1Pairing ==
    Built =>
        LET n == SongCount
            nb == BracketSize(n) - n
            r1 == BuiltInRound(1)
        IN /\ Cardinality(r1) = (n - nb) \div 2
           /\ resp.detail[2] = (n - nb) \div 2
           /\ r1 = (resp.detail[1] + 1)..(resp.detail[1] + (n - nb) \div 2)
           /\ \A k \in 0..((n - nb) \div 2 - 1) :
                 /\ matchups[resp.detail[1] + 1 + k].song1_id = SeedList[nb + k + 1].id
                 /\ matchups[resp.detail[1] + 1 + k].song2_id = SeedList[n - k].id
           /\ \A k \in 1..n :
                 SlotsHolding(r1, SeedList[k].id) = IF k <= nb THEN 0 ELSE 1

\* C2 witness: a bracket with byes and several round-1 matchups was built
C2_Witness == Built /\ NumByes(SongCount) > 0 /\ Cardinality(BuiltInRound(1)) >= 2

\* C3: right after a build each of the top numByes seeds is in exactly one
\* round-2 slot.
C3_ByesInRound2 ==
    (Built /\ FreshRounds) =>
        \A k \in 1..NumByes(SongCount) :
            SlotsHolding(BuiltInRound(2), SeedList[k].id) = 1

\* C4: seeds 1 and 2 never share a matchup of a round other than the last.
C4_TopSeedsMeetInFinal ==
    (Built /\ FreshRounds /\ SongCount >= 3) =>
        \A m \in BuiltIds :
            matchups[m].round_id < Len(rounds) =>
                {matchups[m].song1_id, matchups[m].song2_id}
                    # {SeedList[1].id, SeedList[2].id}

\* C5: round r+1 has ceil((matchups of round r + byes entering r+1) / 2)
\* matchups, byes entering round 2 only, and the last round has one matchup.
C5_RoundShrinkage ==
    Built =>
        /\ \A r \in 1..(Len(rounds) - 1) :
              LET entering == Cardinality(BuiltInRound(r))
                                + (IF r = 1 THEN NumByes(SongCount) ELSE 0)
              IN Cardinality(BuiltInRound(r + 1)) = (entering + 1) \div 2
        /\ Cardinality(BuiltInRound(Len(rounds))) = 1

\* C7: a committed state holds no round and no matchup, or the whole bracket
\* with round 1 active and the status voting_round_1.
C7_BuildAtomic ==
    \/ Len(rounds) = 0 /\ Len(matchups) = 0
    \/ /\ tstatus = VotingRound(1)
       /\ Len(rounds) >= 1
       /\ rounds[1].status = "active"
       /\ Len(matchups) >= 1

\* C6: of the build attempts for one tournament at most one succeeds; the
\* others fail and create nothing.
C6_AtMostOneBuild ==
    /\ Cardinality({p \in Procs : pc[p] = "built"}) <= 1
    /\ \A m1, m2 \in 1..Len(matchups) :
          (matchups[m1].round_id = 1 /\ matchups[m2].round_id = 1
              /\ matchups[m1].song1_id = matchups[m2].song1_id) => m1 = m2

\* C24: after a build every matchup outside the last round has one forward
\* link, to a matchup of the following round: matchup i (from 0) of round 1
\* to index floor(numByes/2) + floor(i/2) of round 2, matchup i of a later
\* round to index floor(i/2); the matchups of the last round have no forward
\* link; and for every matchup the slots filled by the build plus the links
\* into it are at most 2.
C24_ForwardLinks ==
    Built =>
        \A m \in BuiltIds :
            LET r == matchups[m].round_id
                IndexIn(x, k) == Cardinality({y \in BuiltInRound(k) : y < x})
                nxt == matchups[m].next_matchup_id
                filled == (IF matchups[m].song1_id # NULL THEN 1 ELSE 0)
                          + (IF matchups[m].song2_id # NULL THEN 1 ELSE 0)
                incoming == Cardinality({f \in BuiltIds : matchups[f].next_matchup_id = m})
            IN /\ IF r < Len(rounds)
                  THEN /\ nxt \in BuiltInRound(r + 1)
                       /\ IndexIn(nxt, r + 1) =
                              (IF r = 1 THEN resp.detail[4] \div 2 ELSE 0) + IndexIn(m, r) \div 2
                  ELSE nxt = NULL
               /\ filled + incoming <= 2

\* C24 witness: a bracket of three rounds was built whose two byes are paired
\* in round 2 and whose two round-1 matchups link past them
C24_Witness ==
    /\ Built
    /\ Len(rounds) = 3
    /\ resp.detail[4] = 2
    /\ Cardinality(BuiltInRound(1)) = 2

\* C29: after a build every matchup has a position_in_round; the positions
\* of round 1 are distinct and ascend with the seed of the better-seeded song
\* of the matchup.
C29_PositionsAssigned ==
    Built =>
        /\ \A m \in BuiltIds : matchups[m].position_in_round # NULL
        /\ \A m, n \in BuiltInRound(1) :
              LET BetterSeed(x) == CHOOSE k \in 1..Len(SeedList) :
                                      /\ SeedList[k].id \in {matchups[x].song1_id, matchups[x].song2_id}
                                      /\ \A j \in 1..(k - 1) :
                                            SeedList[j].id \notin {matchups[x].song1_id,
                                                                  matchups[x].song2_id}
              IN BetterSeed(m) < BetterSeed(n)
                    => matchups[m].position_in_round < matchups[n].position_in_round

----------------------------------------------------------------------------
(* Properties of seeding *)

\* a ranks before b: more popular, songs without popularity last, the earlier
\* submission first among equals
RanksBefore(a, b) ==
    \/ a.popularity # NoPop /\ b.popularity = NoPop
    \/ a.popularity # NoPop /\ b.popularity # NoPop /\ a.popularity > b.popularity
    \/ a.popularity = b.popularity /\ a.created_at < b.created_at

\* C8: the seed list is a permutation of the songs, ordered by popularity
\* descending, songs without popularity last, ties by earlier submission;
\* and it is the same list however the songs were enumerated.
C8_SeedingDeterministic ==
    seedOut # <<>> =>
        /\ Len(seedOut[1]) = Len(seedIn)
        /\ \A i \in 1..Len(seedIn) : \E k \in 1..Len(seedIn) : seedOut[1][k] = seedIn[i]
        /\ \A i, j \in 1..Len(seedIn) :
              i < j => ~RanksBefore(seedOut[1][j], seedOut[1][i])
        /\ seedOut[1] = seedOut[2]

----------------------------------------------------------------------------
(* Properties of the vote tally *)

\* the round of matchup m is active and its deadline, if any, has not passed at t
OpenAt(m, t) ==
    /\ rounds[matchups[m].round_id].status = "active"
    /\ \/ rounds[matchups[m].round_id].end_date = NULL
       \/ t <= rounds[matchups[m].round_id].end_date

\* the same, with the deadline instant itself closed
OpenBefore(m, t) ==
    /\ rounds[matchups[m].round_id].status = "active"
    /\ \/ rounds[matchups[m].round_id].end_date = NULL
       \/ t < rounds[matchups[m].round_id].end_date

VoteAccepted(r) == r.op = "vote" /\ r.outcome \in {"recorded", "updated", "unchanged"}

\* C9 as claimed: a vote is stored or changed only while the round is active
\* and the time is strictly before the round's deadline.
C9_VoteStrictlyBeforeDeadline ==
    [][\A v \in votes' \ votes : OpenBefore(v.matchup_id, now)]_vars

\* C9 as amended: a vote is stored, changed or acknowledged only while the
\* round is active and the time is not after the round's deadline; it is
\* rejected as not open only outside that window, and a rejected vote stores
\* and changes nothing.
C9_VoteOnlyWhileOpen ==
    [][ /\ \A v \in votes' \ votes : OpenAt(v.matchup_id, now)
        /\ VoteAccepted(resp') => OpenAt(resp'.detail[1], now)
        /\ (resp'.op = "vote" /\ resp'.outcome = "MatchupNotOpen")
              => (votes' = votes /\ ~OpenAt(resp'.detail[1], now)) ]_vars

\* C9 witness: a vote was recorded at the very instant of the deadline
C9_Witness ==
    /\ resp.op = "vote" /\ resp.outcome = "recorded"
    /\ rounds[matchups[resp.detail[1]].round_id].end_date = now

\* C10: a vote for a song in neither slot is rejected and changes nothing;
\* every stored vote is for a song in one of the two slots of its matchup.
C10_VoteForSlotSong ==
    [][ /\ (resp'.op = "vote" /\ resp'.outcome = "InvalidSongForMatchup")
              => UNCHANGED <<songs, rounds, matchups, votes, tstatus>>
        /\ \A v \in votes' :
              v.song_id \in {matchups'[v.matchup_id].song1_id,
                             matchups'[v.matchup_id].song2_id} ]_vars

\* C10 witness: votes are stored and a vote for a song outside the matchup
\* has just been rejected
C10_Witness ==
    /\ resp.op = "vote" /\ resp.outcome = "InvalidSongForMatchup"
    /\ votes # {}
    /\ \E r \in 1..Len(rounds) : rounds[r].status = "completed"

\* C12: a second vote with the same (user, matchup, song) while the round is
\* open succeeds, reports changed = false and leaves every vote record, its
\* changed flag included, and both vote counts of the matchup as they were.
C12_ResubmissionIsNoOp ==
    [][ \A u \in Users, m \in 1..Len(matchups), s \in songs :
            ( /\ \E v \in votes : v.user_id = u /\ v.matchup_id = m /\ v.song_id = s.id
              /\ OpenAt(m, now)
              /\ CastVote(u, m, s.id) )
            => /\ resp'.outcome = "unchanged"
               /\ votes' = votes
               /\ get_vote_count(votes', m, matchups'[m].song1_id)
                     = get_vote_count(votes, m, matchups[m].song1_id)
               /\ get_vote_count(votes', m, matchups'[m].song2_id)
                     = get_vote_count(votes, m, matchups[m].song2_id) ]_vars

\* C12 witness: a vote that had been switched before was submitted again
C12_Witness ==
    /\ resp.op = "vote" /\ resp.outcome = "unchanged"
    /\ \E v \in votes : v.matchup_id = resp.detail[1] /\ v.is_vote_changed

----------------------------------------------------------------------------
(* Properties of round advancement *)

\* the last request advanced a round
Advanced == resp.op = "advance_round" /\ resp.outcome \in {"advanced", "completed"}

InRound(r) == {m \in 1..Len(matchups) : matchups[m].round_id = r}

\* the matchups of its round before m that have a winner and link where m links
EarlierInto(m) ==
    {k \in InRound(matchups[m].round_id) :
        /\ k < m
        /\ matchups[k].next_matchup_id = matchups[m].next_matchup_id
        /\ get_winner(votes, matchups[k], k) # NULL}

\* C15: after an active round is advanced, every matchup of it for which
\* get_winner yields a song has that song stored as winner and is completed,
\* the song is in exactly one slot of the matchup it links to (slot 1 if that
\* was empty, otherwise slot 2), and winners_advanced counts the songs placed.
C15_WinnersAdvanced ==
    [][ \A r \in 1..Len(rounds) :
            (rounds[r].status = "active" /\ AdvanceRound(r)) =>
                /\ \A m \in InRound(r) :
                      LET w == get_winner(votes, matchups[m], m)
                          n == matchups[m].next_matchup_id
                      IN w # NULL =>
                          /\ matchups'[m].winner_song_id = w
                          /\ matchups'[m].status = "completed"
                          /\ n # NULL =>
                                /\ (matchups'[n].song1_id = w) # (matchups'[n].song2_id = w)
                                /\ IF matchups[n].song1_id = NULL /\ EarlierInto(m) = {}
                                   THEN matchups'[n].song1_id = w
                                   ELSE matchups'[n].song2_id = w
                /\ resp'.detail[2] =
                      Cardinality({m \in InRound(r) :
                          /\ get_winner(votes, matchups[m], m) # NULL
                          /\ matchups[m].next_matchup_id # NULL
                          /\ get_winner(votes, matchups[m], m)
                                \in {matchups'[matchups[m].next_matchup_id].song1_id,
                                     matchups'[matchups[m].next_matchup_id].song2_id}}) ]_vars

\* C15 witness: two winners of a round were placed in the two slots of one matchup
C15_Witness ==
    /\ Advanced /\ resp.detail[2] = 2
    /\ \E m \in 1..Len(matchups) :
          /\ matchups[m].round_id = resp.detail[1] + 1
          /\ matchups[m].song1_id # NULL /\ matchups[m].song2_id # NULL

\* C16: advancing a round that holds a tied matchup resolves the tie: after
\* the call every matchup of the round with both slots filled has a stored
\* winner, and the winner is in the matchup it links to.
C16_TiesResolved ==
    [][ \A r \in 1..Len(rounds) :
            (rounds[r].status = "active" /\ AdvanceRound(r)) =>
                \A m \in InRound(r) :
                    (matchups[m].song1_id # NULL /\ matchups[m].song2_id # NULL) =>
                        /\ matchups'[m].winner_song_id # NULL
                        /\ matchups[m].next_matchup_id # NULL =>
                              matchups'[m].winner_song_id
                                \in {matchups'[matchups[m].next_matchup_id].song1_id,
                                     matchups'[matchups[m].next_matchup_id].song2_id} ]_vars

\* the tournament status agrees with the statuses of the rounds
StatusMatchesRounds ==
    /\ tstatus = Registration => \A k \in 1..Len(rounds) : rounds[k].status = "pending"
    /\ tstatus = Completed =>
          /\ Len(rounds) >= 1
          /\ \A k \in 1..Len(rounds) : rounds[k].status = "completed"
    /\ \A n \in 1..MaxEntrants :
          tstatus = VotingRound(n) =>
              /\ n <= Len(rounds)
              /\ \A k \in 1..Len(rounds) :
                    rounds[k].status = IF k < n THEN "completed"
                                       ELSE IF k = n THEN "active" ELSE "pending"

Finals == {m \in 1..Len(matchups) : matchups[m].next_matchup_id = NULL}

\* C18: advancing the last round completes the tournament and reports a
\* champion, the winner of the one matchup without a next-round link; the
\* tournament is never completed without a champion.
C18_ChampionReported ==
    /\ (resp.op = "advance_round" /\ resp.outcome = "completed") =>
          /\ tstatus = Completed
          /\ Cardinality(Finals) = 1
          /\ resp.detail[3] # NULL
          /\ \A m \in Finals : matchups[m].winner_song_id = resp.detail[3]
    /\ tstatus = Completed =>
          \E m \in Finals : matchups[m].winner_song_id # NULL

Tally(s) == Cardinality({v \in votes : v.matchup_id = 1 /\ v.song_id = s})

\* C13: get_winner returns the stored winner when there is one, whatever the
\* votes; otherwise the slot song with strictly more votes; and no winner
\* when the counts are equal or a slot is empty.
C13_GetWinner ==
    resp.op = "get_winner" =>
        LET mu == matchups[1]
            w == resp.detail[1]
        IN /\ mu.winner_song_id # NULL => w = mu.winner_song_id
           /\ (mu.winner_song_id = NULL /\ (mu.song1_id = NULL \/ mu.song2_id = NULL))
                 => w = NULL
           /\ (mu.winner_song_id = NULL /\ mu.song1_id # NULL /\ mu.song2_id # NULL) =>
                 /\ Tally(mu.song1_id) > Tally(mu.song2_id) => w = mu.song1_id
                 /\ Tally(mu.song2_id) > Tally(mu.song1_id) => w = mu.song2_id
                 /\ Tally(mu.song1_id) = Tally(mu.song2_id) => w = NULL

\* C13 witness: the stored winner was returned although the other song has more votes
C13_Witness ==
    /\ resp.op = "get_winner"
    /\ matchups[1].winner_song_id = 1
    /\ resp.detail[1] = 1
    /\ Tally(2) > Tally(1)

----------------------------------------------------------------------------
(* Properties of concurrent votes *)

\* C11: at most one stored vote per (user, matchup), also under concurrent
\* requests of one user; the counts of the two slots of a matchup sum to the
\* number of users with an accepted vote on it; the stored vote of a user is
\* the choice last accepted from them; a vote whose song is switched is
\* updated in place and flagged as changed.
C11_OneVotePerUser ==
    [][ /\ \A v, w \in votes' :
              (v.user_id = w.user_id /\ v.matchup_id = w.matchup_id) => v = w
        /\ \A m \in 1..Len(matchups') :
              get_vote_count(votes', m, matchups'[m].song1_id)
                + get_vote_count(votes', m, matchups'[m].song2_id)
              = Cardinality({a \in accepted' : a[2] = m})
        /\ \A a \in accepted' :
              \E v \in votes' :
                  v.user_id = a[1] /\ v.matchup_id = a[2] /\ v.song_id = a[3]
        /\ \A v \in votes, w \in votes' :
              (v.user_id = w.user_id /\ v.matchup_id = w.matchup_id
                  /\ v.song_id # w.song_id)
              => (w.is_vote_changed /\ Cardinality(votes') = Cardinality(votes)) ]_vars

\* C11 witness: of two concurrent first votes of one user the second to
\* commit was refused, and a vote of that matchup has been switched
C11_Witness ==
    /\ resp.op = "vote" /\ resp.outcome = "error"
    /\ \E v \in votes : v.is_vote_changed

\* C20: under any interleaving of votes and advancement of a round no vote
\* is stored or changed once the completion of the round is committed, and
\* the stored winner of a matchup has strictly more stored votes than the
\* song of the other slot.
C20_VotesFrozenAtCompletion ==
    [][ /\ \A v \in votes' \ votes :
              rounds[matchups[v.matchup_id].round_id].status # "completed"
        /\ \A m \in 1..Len(matchups') :
              LET mu == matchups'[m]
              IN mu.winner_song_id # NULL =>
                    \A other \in {mu.song1_id, mu.song2_id} \ {mu.winner_song_id} :
                        get_vote_count(votes', m, mu.winner_song_id)
                            > get_vote_count(votes', m, other) ]_vars

----------------------------------------------------------------------------
(* Properties of concurrent requests to end a round *)

\* C21: two concurrent requests to end the same active round take effect as
\* at most one: no song is ever in both slots of a matchup, no song is in
\* two slots of the matchups of one round, and the tournament status moves
\* forward only, one round at a time.
C21_OneAdvancement ==
    [][ /\ \A m \in 1..Len(matchups') :
              matchups'[m].song1_id # NULL => matchups'[m].song1_id # matchups'[m].song2_id
        /\ \A r \in 1..Len(rounds'), s \in songs :
              Cardinality({m \in 1..Len(matchups') :
                              matchups'[m].round_id = r /\ matchups'[m].song1_id = s.id})
              + Cardinality({m \in 1..Len(matchups') :
                              matchups'[m].round_id = r /\ matchups'[m].song2_id = s.id}) <= 1
        /\ tstatus = Completed => tstatus' = Completed
        /\ \A n \in 1..Len(rounds) :
              tstatus = VotingRound(n) =>
                  tstatus' \in {VotingRound(n), VotingRound(n + 1), Completed} ]_vars

\* C23: a winner that advance_round has resolved is never dropped while its
\* round is marked completed: an advancement that finds both slots of the
\* next matchup taken by other songs fails and changes nothing, so in every
\* committed state a stored winner of a completed round is in the matchup
\* its matchup links to.
C23_NoWinnerDropped ==
    \A m \in 1..Len(matchups) :
        ( /\ matchups[m].winner_song_id # NULL
          /\ matchups[m].next_matchup_id # NULL
          /\ rounds[matchups[m].round_id].status = "completed" )
        => matchups[m].winner_song_id
               \in {matchups[matchups[m].next_matchup_id].song1_id,
                    matchups[matchups[m].next_matchup_id].song2_id}

\* C28: tournament status and round statuses agree in every committed state:
\* under registration no round is active or completed; under voting_round_N
\* round N exists and is the only active round, the rounds below it are
\* completed and the rounds above it pending; under completed every round is
\* completed.
C28_StatusAgreesWithRounds ==
    LET Active == {k \in 1..Len(rounds) : rounds[k].status = "active"}
        Done == {k \in 1..Len(rounds) : rounds[k].status = "completed"}
        Pending == {k \in 1..Len(rounds) : rounds[k].status = "pending"}
    IN /\ tstatus = Registration => Active = {} /\ Done = {}
       /\ tstatus = Completed => Done = 1..Len(rounds)
       /\ tstatus[1] = "voting_round" =>
              /\ Active = {tstatus[2]}
              /\ Done = 1..(tstatus[2] - 1)
              /\ Pending = (tstatus[2] + 1)..Len(rounds)

----------------------------------------------------------------------------
(* Properties of deadlines and slots *)

\* C22: extending an active or pending round by H hours moves the end of
\* that round by H and the start and end of every later round by H, leaves
\* the earlier rounds as they were (so every later round keeps its duration)
\* and keeps the end of each round at or before the start of the following
\* round; extending a completed round is rejected (RoundNotExtendable) and
\* changes no timestamp.
C22_ExtensionShifts ==
    [][ \A r \in 1..Len(rounds), h \in ExtensionChoices, shift \in ZoneShifts :
            ExtendRound(r, h, shift) =>
                IF rounds[r].status = "completed"
                THEN resp'.outcome = "RoundNotExtendable" /\ rounds' = rounds
                ELSE resp'.outcome = "extended" =>
                        /\ rounds'[r].end_date = rounds[r].end_date + h
                        /\ rounds'[r].start_date = rounds[r].start_date
                        /\ \A k \in (r + 1)..Len(rounds) :
                              /\ rounds'[k].start_date = rounds[k].start_date + h
                              /\ rounds'[k].end_date = rounds[k].end_date + h
                        /\ \A k \in 1..(r - 1) : rounds'[k] = rounds[k]
                        /\ \A k \in 1..(Len(rounds) - 1) :
                              rounds'[k].end_date <= rounds'[k + 1].start_date ]_vars

\* C30: every round that has both timestamps starts at or before its end,
\* after any sequence of build, extension and advancement (early or late).
C30_StartBeforeEnd ==
    \A r \in 1..Len(rounds) :
        (rounds[r].start_date # NULL /\ rounds[r].end_date # NULL)
            => rounds[r].start_date <= rounds[r].end_date

\* C25: a slot that holds a song keeps it: no request changes it to another
\* song or empties it.  A slot is written only while empty, and only by the
\* advancement of the round before its matchup's round, with the winner of a
\* matchup of that round that links to it.
C25_SlotsWrittenOnce ==
    [][ /\ Len(matchups') >= Len(matchups)
        /\ \A m \in 1..Len(matchups) :
              /\ matchups[m].song1_id # NULL => matchups'[m].song1_id = matchups[m].song1_id
              /\ matchups[m].song2_id # NULL => matchups'[m].song2_id = matchups[m].song2_id
              /\ \A slot \in {<<matchups[m].song1_id, matchups'[m].song1_id>>,
                               <<matchups[m].song2_id, matchups'[m].song2_id>>} :
                    slot[1] # slot[2] =>
                        \E r \in 1..Len(rounds) :
                            /\ RoundIsActive(rounds[r])
                            /\ AdvanceRound(r)
                            /\ matchups[m].round_id = r + 1
                            /\ \E f \in InRound(r) :
                                  /\ matchups[f].next_matchup_id = m
                                  /\ matchups'[f].winner_song_id = slot[2] ]_vars

\* C25 witness: a round is extended after both winners of round 1 were
\* placed in the final of a bracket of 4 songs
C25_Witness ==
    /\ resp.op = "extend_round" /\ resp.outcome = "extended"
    /\ SongCount = 4
    /\ \E m \in InRound(2) :
          /\ matchups[m].song1_id # NULL /\ matchups[m].song2_id # NULL
          /\ \A f \in InRound(1) : matchups[f].winner_song_id
                                      \in {matchups[m].song1_id, matchups[m].song2_id}

\* C26: in every reachable state no song occupies more than one slot among
\* the matchups of one round (so never both slots of one matchup), and the
\* winner of a matchup is in at most one matchup of the following round.
C26_OneSlotPerRound ==
    \A r \in 1..Len(rounds), s \in songs : SlotsHolding(InRound(r), s.id) <= 1

\* C27: if every matchup of two songs in the rounds ended so far was decided
\* (by a strict majority), every matchup of an active round holds two
\* distinct songs.
C27_ActiveRoundsFilled ==
    (\A m \in 1..Len(matchups) :
        ( /\ rounds[matchups[m].round_id].status = "completed"
          /\ matchups[m].song1_id # NULL
          /\ matchups[m].song2_id # NULL ) => matchups[m].winner_song_id # NULL)
    => \A r \in 1..Len(rounds) :
          rounds[r].status = "active" =>
              \A m \in InRound(r) :
                  /\ matchups[m].song1_id # NULL
                  /\ matchups[m].song2_id # NULL
                  /\ matchups[m].song1_id # matchups[m].song2_id

====
